---- MODULE Spec2Model ----
(***************************************************************************)
(* Model of dropsite-ai/binaryinstall (binaryinstall.go).                  *)
(*                                                                         *)
(* InstallBinaries starts one goroutine per upload.  Each goroutine        *)
(* derives the binary name, renders scriptTemplate and runs the script on  *)
(* the remote host with one ssh call.  Errors go to a buffered channel     *)
(* that is drained after wg.Wait().                                        *)
(*                                                                         *)
(* The specifications share the state:                                     *)
(*   Spec       the remote script runs one shell command at a time, the    *)
(*              commands of concurrent ssh sessions interleave;            *)
(*   SpecOrch   processUploadSingleCommand is one step: the ssh call runs  *)
(*              its script to completion and fails from outside only       *)
(*              before the first command; for the orchestration;           *)
(*   SpecName   as SpecOrch, for one upload whose archive path is drawn    *)
(*              from a family of file names, alone or followed by a second *)
(*              upload; for the name derivation;                           *)
(*   SpecConfig as SpecOrch, over the whole BinaryInstallConfig: Verbose   *)
(*              on or off, RemoteHost and SSHKeyPath empty or not, called  *)
(*              by main (cmd/main.go) or by a program that imports the     *)
(*              package; for the configuration.                            *)
(* FairSpec is Spec for the uploads of SpecOrch with fair scheduling of     *)
(* the goroutines and ssh calls that return, for termination.              *)
(* Strings the code takes apart (paths, names) are sequences of            *)
(* one-character strings.                                                  *)
(***************************************************************************)
EXTENDS Integers, Sequences, FiniteSets, TLC

\* ------------------------------------------------------------------ bounds
\* Longest Uploads list of SpecOrch (calls are atomic there).
MaxUploads == 3
\* Longest Uploads list of Spec (remote commands interleave there).
MaxScriptUploads == 2
\* Longest Uploads list of SpecConfig.
MaxConfigUploads == 2
\* Longest <name> and longest <rest> of the archive names of SpecName.
MaxNameLen == 2

\* ---------------------------------------------------- strings and the name
TarGz == <<".", "t", "a", "r", ".", "g", "z">>

RECURSIVE LastSlash(_, _)
\* Index of the last "/" of s at or before position k, 0 if there is none.
LastSlash(s, k) ==
    IF k = 0 THEN 0
    ELSE IF s[k] = "/" THEN k ELSE LastSlash(s, k - 1)

RECURSIVE StripTrailingSlashes(_)
StripTrailingSlashes(s) ==
    IF Len(s) > 0 /\ s[Len(s)] = "/"
    THEN StripTrailingSlashes(SubSeq(s, 1, Len(s) - 1))
    ELSE s

\* filepath.Base: "." for the empty path, "/" for a path of slashes only,
\* else the last element once trailing slashes are removed.
Base(path) ==
    IF path = <<>> THEN <<".">>
    ELSE LET t == StripTrailingSlashes(path)
         IN IF t = <<>> THEN <<"/">>
            ELSE SubSeq(t, LastSlash(t, Len(t)) + 1, Len(t))

HasSuffix(s, suffix) ==
    /\ Len(s) >= Len(suffix)
    /\ SubSeq(s, Len(s) - Len(suffix) + 1, Len(s)) = suffix

\* strings.TrimSuffix
TrimSuffix(s, suffix) ==
    IF HasSuffix(s, suffix) THEN SubSeq(s, 1, Len(s) - Len(suffix)) ELSE s

RECURSIVE FirstIndex(_, _, _)
\* Index of the first c in s at or after position k, 0 if there is none.
FirstIndex(s, c, k) ==
    IF k > Len(s) THEN 0
    ELSE IF s[k] = c THEN k ELSE FirstIndex(s, c, k + 1)

RECURSIVE Split(_, _)
\* strings.Split with a one-character separator: never the empty list.
Split(s, sep) ==
    LET i == FirstIndex(s, sep, 1)
    IN IF i = 0 THEN <<s>>
       ELSE <<SubSeq(s, 1, i - 1)>> \o Split(SubSeq(s, i + 1, Len(s)), sep)

\* The derivation taking the part after the last underscore.
DeriveBinaryName_LastPart(path) ==
    LET parts == Split(TrimSuffix(Base(path), TarGz), "_")
    IN [ok |-> TRUE, name |-> parts[Len(parts)]]

\* The name derivation of processUploadSingleCommand: [ok, name].
DeriveBinaryName(path) ==
    LET base           == Base(path)
        nameWithoutExt == TrimSuffix(base, TarGz)
        parts          == Split(nameWithoutExt, "_")
    IN IF Len(parts) = 0
       THEN [ok |-> FALSE, name |-> <<>>]
       ELSE [ok |-> TRUE, name |-> parts[1]]

\* ------------------------------------------------------------ the inputs
PathA1 == <<"/", "u", "/", "a", "_", "1">> \o TarGz
PathA2 == <<"/", "v", "/", "a", "_", "2">> \o TarGz
PathB1 == <<"/", "u", "/", "b", "_", "1">> \o TarGz
PathC  == <<"/", "u", "/", "c">> \o TarGz

BackupDir == "/bak"

\* BinaryUpload values the runs are drawn from.
UpA == [Path |-> PathA1, DestinationDir |-> "/bin", Owner |-> "root",
        Permission |-> "0755", BindLowPorts |-> TRUE]
\* The same archive installed to a second destination, no capability.
UpA_opt == [Path |-> PathA1, DestinationDir |-> "/opt", Owner |-> "app",
            Permission |-> "0700", BindLowPorts |-> FALSE]
\* Another archive of the same binary name for the same destination.
UpA2 == [Path |-> PathA2, DestinationDir |-> "/bin", Owner |-> "app",
         Permission |-> "0700", BindLowPorts |-> FALSE]
\* An archive that does not hold the binary its name promises.
UpB == [Path |-> PathB1, DestinationDir |-> "/bin", Owner |-> "root",
        Permission |-> "0755", BindLowPorts |-> TRUE]
\* An archive tar cannot extract.
UpC == [Path |-> PathC, DestinationDir |-> "/bin", Owner |-> "root",
        Permission |-> "0755", BindLowPorts |-> FALSE]

OrchUploads   == {UpA, UpB}
ScriptUploads == {UpA, UpA_opt, UpA2, UpB, UpC}

RECURSIVE SeqsUpTo(_, _)
\* The sequences over S of length at most n.
SeqsUpTo(S, n) ==
    IF n = 0 THEN {<<>>}
    ELSE LET shorter == SeqsUpTo(S, n - 1)
         IN shorter \cup {Append(s, x) : s \in {t \in shorter : Len(t) = n - 1}, x \in S}

\* Archive paths for the name derivation: <dir><name>_<rest>.tar.gz with a
\* non-empty <name> free of underscores, and paths without a name: the file
\* names _<rest>.tar.gz and .tar.gz.
PathDirs  == {<<>>, <<"u", "/">>, <<"/", "u", "/">>}
NameChars == {"a", "."}
RestChars == {"x", "_"}

NamedPaths ==
    {d \o n \o <<"_">> \o r \o TarGz :
        d \in PathDirs,
        n \in SeqsUpTo(NameChars, MaxNameLen) \ {<<>>},
        r \in SeqsUpTo(RestChars, MaxNameLen)}

NamelessPaths ==
    {d \o <<"_">> \o r \o TarGz : d \in PathDirs, r \in SeqsUpTo(RestChars, 1)}
        \cup {d \o TarGz : d \in PathDirs}

UploadOf(path) ==
    [Path |-> path, DestinationDir |-> "/opt", Owner |-> "root",
     Permission |-> "0755", BindLowPorts |-> FALSE]

\* ------------------------------------------------------- the remote host
NameA == <<"a">>
NameB == <<"b">>
NameC == <<"c">>
NameX == <<"x">>

\* What tar finds at a path on the remote host: ok is FALSE when tar fails,
\* files are the <<name, content>> pairs it extracts.
ArchiveAt(path) ==
    IF path = PathA1 THEN [ok |-> TRUE, files |-> {<<NameA, "a1">>}]
    ELSE IF path = PathA2 THEN [ok |-> TRUE, files |-> {<<NameA, "a2">>}]
    ELSE IF path = PathB1 THEN [ok |-> TRUE, files |-> {<<NameX, "x1">>}]
    ELSE [ok |-> FALSE, files |-> {}]

NoFile == [present |-> FALSE, content |-> "", owner |-> "", mode |-> "", cap |-> FALSE]
NoDir  == [exists |-> FALSE, files |-> {}]

DestDirs  == {"/bin", "/opt"}
FileNames == {NameA, NameB, NameC, NameX}
\* The host before the run: /bin holds a and b, the backup directory holds
\* an older a, /opt is empty, no temp directory exists.  dirs is the number of
\* temp directory names the run can draw.
InitRemote(dirs) ==
    [tmp  |-> [t \in 1..dirs |-> NoDir],
     dest |-> [k \in DestDirs \X FileNames |->
                 IF k = <<"/bin", NameA>>
                 THEN [present |-> TRUE, content |-> "a0", owner |-> "root",
                       mode |-> "0755", cap |-> TRUE]
                 ELSE IF k = <<"/bin", NameB>>
                 THEN [present |-> TRUE, content |-> "b0", owner |-> "root",
                       mode |-> "0755", cap |-> FALSE]
                 ELSE NoFile],
     bakDir |-> TRUE,
     bak  |-> [n \in FileNames |->
                 IF n = NameA
                 THEN [present |-> TRUE, content |-> "a00", owner |-> "root",
                       mode |-> "0755", cap |-> FALSE]
                 ELSE NoFile]]

\* ------------------------------------------------------ the remote script
\* ScriptData as processUploadSingleCommand fills it.
MakeScriptData(upload, binaryName, tempDir) ==
    [TempDir        |-> tempDir,
     UploadPath     |-> upload.Path,
     BinaryName     |-> binaryName,
     BackupDir      |-> BackupDir,
     DestinationDir |-> upload.DestinationDir,
     Owner          |-> upload.Owner,
     Permission     |-> upload.Permission,
     BindLowPorts   |-> upload.BindLowPorts]

\* The template with the existence check moved behind the installation.
TemplateCommands_TestLate ==
    <<"mkdir_tmp", "tar", "mkdir_backup", "backup_mv",
      "cp", "chown", "chmod", "test", "rm_tmp">>

\* The commands of scriptTemplate in the order of the text.
TemplateCommands ==
    <<"mkdir_tmp", "tar", "test", "mkdir_backup", "backup_mv",
      "cp", "chown", "chmod", "rm_tmp">>

\* The block without its {{ if }}.
CapabilityBlock_Always(sData) == <<"setcap">>

\* The {{ if .BindLowPorts }} block at the end of the template.
CapabilityBlock(sData) ==
    IF sData.BindLowPorts THEN <<"setcap">> ELSE <<>>

\* scriptTemplate.Execute: the commands of the rendered script and the data
\* they were rendered with.
RenderScript(sData) ==
    [ops |-> TemplateCommands \o CapabilityBlock(sData), data |-> sData]

\* Files of a directory listing, with the files named in 'over' replaced.
Overwrite(files, over) ==
    {f \in files : \A g \in over : g[1] # f[1]} \cup over

FileIn(dir, name) == {f \in dir.files : f[1] = name}

\* The script without its backup block.
BackupMove_Skip(d, r) == [ok |-> TRUE, r |-> r]

\* if [ -f dest/name ]; then sudo mv dest/name backup/; fi
\* mv replaces a file of the same name in the backup directory; without a
\* binary at the destination the block is skipped and the step succeeds.
BackupMove(d, r) ==
    LET key == <<d.DestinationDir, d.BinaryName>>
    IN IF r.dest[key].present
       THEN IF r.bakDir
            THEN [ok |-> TRUE,
                  r  |-> [r EXCEPT !.bak[d.BinaryName] = r.dest[key],
                                   !.dest[key] = NoFile]]
            ELSE [ok |-> FALSE, r |-> r]
       ELSE [ok |-> TRUE, r |-> r]

\* One command of the script against the host r: [ok, r].  A command that
\* fails changes nothing.
RunCommand(op, d, r) ==
    LET key  == <<d.DestinationDir, d.BinaryName>>
        tdir == r.tmp[d.TempDir]
        cur  == r.dest[key]
        fail == [ok |-> FALSE, r |-> r]
    IN
    CASE op = "mkdir_tmp" ->
           \* mkdir -p: keeps a directory that is already there
           [ok |-> TRUE,
            r  |-> [r EXCEPT !.tmp[d.TempDir] = [exists |-> TRUE, files |-> tdir.files]]]
      [] op = "tar" ->
           LET ar == ArchiveAt(d.UploadPath)
           IN IF ar.ok /\ tdir.exists
              THEN [ok |-> TRUE,
                    r  |-> [r EXCEPT !.tmp[d.TempDir].files = Overwrite(tdir.files, ar.files)]]
              ELSE fail
      [] op = "test" ->
           IF tdir.exists /\ FileIn(tdir, d.BinaryName) # {}
           THEN [ok |-> TRUE, r |-> r] ELSE fail
      [] op = "mkdir_backup" ->
           [ok |-> TRUE, r |-> [r EXCEPT !.bakDir = TRUE]]
      [] op = "backup_mv" -> BackupMove(d, r)
      [] op = "cp" ->
           \* sudo cp: a new file belongs to root with the default mode, an
           \* existing one keeps owner and mode and loses its capability
           IF tdir.exists /\ FileIn(tdir, d.BinaryName) # {}
           THEN LET src == CHOOSE f \in FileIn(tdir, d.BinaryName) : TRUE
                IN [ok |-> TRUE,
                    r  |-> [r EXCEPT !.dest[key] =
                              IF cur.present
                              THEN [cur EXCEPT !.content = src[2], !.cap = FALSE]
                              ELSE [present |-> TRUE, content |-> src[2],
                                    owner |-> "root", mode |-> "0644", cap |-> FALSE]]]
           ELSE fail
      [] op = "chown" ->
           IF cur.present
           THEN [ok |-> TRUE, r |-> [r EXCEPT !.dest[key].owner = d.Owner]]
           ELSE fail
      [] op = "chmod" ->
           IF cur.present
           THEN [ok |-> TRUE, r |-> [r EXCEPT !.dest[key].mode = d.Permission]]
           ELSE fail
      [] op = "rm_tmp" ->
           [ok |-> TRUE, r |-> [r EXCEPT !.tmp[d.TempDir] = NoDir]]
      [] op = "setcap" ->
           IF cur.present
           THEN [ok |-> TRUE, r |-> [r EXCEPT !.dest[key].cap = TRUE]]
           ELSE fail

\* 'set -e' and the end of the text: the script is over after a failed
\* command or after its last command.  out lists the commands run so far,
\* each with its outcome and whether it failed for an outside reason.
ScriptOver_NoSetE(ops, out) == Len(out) = Len(ops)

ScriptOver(ops, out) ==
    \/ Len(out) = Len(ops)
    \/ Len(out) > 0 /\ ~out[Len(out)].ok

\* The exit status of a finished script is that of its last command.
ExitFailed(out) == Len(out) > 0 /\ ~out[Len(out)].ok

\* One more command of the script; fault makes it fail for a reason outside
\* the files modelled (sudo, disk, connection).
StepScript(script, out, r, fault) ==
    LET op  == script.ops[Len(out) + 1]
        res == IF fault THEN [ok |-> FALSE, r |-> r]
               ELSE RunCommand(op, script.data, r)
    IN [out |-> Append(out, [op |-> op, ok |-> res.ok, fault |-> fault]), r |-> res.r]

RECURSIVE RunScript(_, _, _, _)
\* The whole script from the state [out, r]; faultAt is the position of the
\* command that fails for an outside reason, 0 for none.
RunScript(script, out, r, faultAt) ==
    IF ScriptOver(script.ops, out) THEN [out |-> out, r |-> r]
    ELSE LET s == StepScript(script, out, r, faultAt = Len(out) + 1)
         IN RunScript(script, s.out, s.r, faultAt)

\* ---------------------------------------------------------------- state
VARIABLES
    config,     \* BinaryInstallConfig
    caller,     \* who calls InstallBinaries: "cli" (main) or "package"
    pc,         \* main: "main", "exit0", "exit1"; InstallBinaries: "entry",
                \* "spawn", "wait", "drain", "returned"
    spawned,    \* uploads the for loop has started a goroutine for
    wg,         \* the sync.WaitGroup counter
    errChan,    \* the buffered error channel, oldest first
    closed,     \* close(errChan) was called
    result,     \* what InstallBinaries returned
    task,       \* one goroutine per upload
    remote,     \* the files of the remote host
    now,        \* the last value time.Now().UnixNano() returned
    log         \* the lines written with log.Printf

vars == <<config, caller, pc, spawned, wg, errChan, closed, result, task, remote,
          now, log>>

N == Len(config.Uploads)
Tasks == 1..N

NoScript == [ops |-> <<>>, data |-> MakeScriptData(UpA, <<>>, 0)]

IdleTask ==
    [pc |-> "idle", upload |-> UpA, script |-> NoScript, out |-> <<>>,
     calls |-> 0, err |-> FALSE]

NotReturned == [returned |-> FALSE, err |-> FALSE, msg |-> "", path |-> <<>>]
ReturnNil   == [returned |-> TRUE, err |-> FALSE, msg |-> "", path |-> <<>>]
ReturnError(msg, path) == [returned |-> TRUE, err |-> TRUE, msg |-> msg, path |-> path]

\* The state when 'who' is about to run with the given configuration: main
\* is at its flag check, another caller at its call of InstallBinaries.
InitConfig(who, host, key, uploads, verbose) ==
    /\ config = [RemoteHost |-> host, SSHUser |-> "ec2-user", SSHKeyPath |-> key,
                 Uploads |-> uploads, BackupDir |-> BackupDir, Verbose |-> verbose]
    /\ caller = who
    /\ pc = IF who = "cli" THEN "main" ELSE "entry"
    /\ log = {}
    /\ spawned = 0
    /\ wg = 0
    /\ errChan = <<>>
    /\ closed = FALSE
    /\ result = NotReturned
    /\ task = [i \in 1..Len(uploads) |-> IdleTask]
    /\ remote = InitRemote(Len(uploads))
    /\ now = 0

\* A caller of the package with a complete target and Verbose off (the
\* default of the -verbose flag).
InitWith(uploads) == InitConfig("package", "host", "key.pem", uploads, FALSE)

Init == \E u \in SeqsUpTo(ScriptUploads, MaxScriptUploads) : InitWith(u)

InitOrch == \E u \in SeqsUpTo(OrchUploads, MaxUploads) : InitWith(u)

InitAnyConfig ==
    \E who \in {"cli", "package"}, host \in {"", "host"}, key \in {"", "key.pem"},
       u \in SeqsUpTo(OrchUploads, MaxConfigUploads), verbose \in BOOLEAN :
        InitConfig(who, host, key, u, verbose)

InitName ==
    \E p \in NamedPaths \cup NamelessPaths, more \in {<<>>, <<UpA>>} :
        InitWith(<<UploadOf(p)>> \o more)

\* ------------------------------------------------------- InstallBinaries
\* if len(config.Uploads) == 0 { return error }
NoUploads_Unchecked(uploads) == FALSE

NoUploads(uploads) == Len(uploads) = 0

CheckUploads ==
    /\ pc = "entry"
    /\ IF NoUploads(config.Uploads)
       THEN /\ result' = ReturnError("no uploads provided", <<>>)
            /\ pc' = "returned"
       ELSE /\ pc' = IF N = 0 THEN "wait" ELSE "spawn"
            /\ UNCHANGED result
    /\ UNCHANGED <<config, caller, spawned, wg, errChan, closed, task, remote, now, log>>

\* upload := upload: the goroutine started for position i works on its own
\* copy of Uploads[i].
CapturedUpload_LoopVar(uploads, i) == uploads[Len(uploads)]

CapturedUpload(uploads, i) == uploads[i]

\* The loop running each upload to its end before it starts the next.
GoFunc_Sequential ==
    /\ pc = "spawn"
    /\ spawned < N
    /\ \A i \in 1..spawned : task[i].pc = "done"
    /\ spawned' = spawned + 1
    /\ wg' = wg + 1
    /\ task' = [task EXCEPT ![spawned + 1] =
                  [@ EXCEPT !.pc = "started",
                            !.upload = CapturedUpload(config.Uploads, spawned + 1)]]
    /\ pc' = IF spawned + 1 = N THEN "wait" ELSE "spawn"
    /\ UNCHANGED <<config, caller, errChan, closed, result, remote, now, log>>

\* One turn of the for loop: wg.Add(1); go func() {...}()
GoFunc ==
    /\ pc = "spawn"
    /\ spawned < N
    /\ spawned' = spawned + 1
    /\ wg' = wg + 1
    /\ task' = [task EXCEPT ![spawned + 1] =
                  [@ EXCEPT !.pc = "started",
                            !.upload = CapturedUpload(config.Uploads, spawned + 1)]]
    /\ pc' = IF spawned + 1 = N THEN "wait" ELSE "spawn"
    /\ UNCHANGED <<config, caller, errChan, closed, result, remote, now, log>>

\* wg.Wait() returns when the counter is zero.
WaitDone_NoWait(counter) == TRUE

WaitDone(counter) == counter = 0

\* wg.Wait(); close(errChan)
WaitAndClose ==
    /\ pc = "wait"
    /\ WaitDone(wg)
    /\ closed' = TRUE
    /\ pc' = "drain"
    /\ UNCHANGED <<config, caller, spawned, wg, errChan, result, task, remote, now, log>>

\* for err := range errChan { if err != nil { return err } }; return nil
DrainResult_Nil(chan) == ReturnNil

DrainResult(chan) ==
    IF Len(chan) > 0
    THEN ReturnError("failed to process upload", chan[1].path)
    ELSE ReturnNil

Drain ==
    /\ pc = "drain"
    /\ result' = DrainResult(errChan)
    /\ pc' = "returned"
    /\ UNCHANGED <<config, caller, spawned, wg, errChan, closed, task, remote, now, log>>

\* ------------------------------------------------------- one upload's task
\* time.Now().UnixNano(): never less than the last value read, and two reads
\* can return the same value.
ClockReads == {t \in {now, now + 1} : t >= 1}

\* Verbose with nothing logged.
LogLines_Never(verbose, lines) == {}

\* if config.Verbose { log.Printf(...) }
LogLines(verbose, lines) == IF verbose THEN lines ELSE {}

\* A log line: what it reports and the upload path its text carries, <<>>
\* when it carries none.
Line(kind, path) == [kind |-> kind, path |-> path]

\* "Processing upload: <path>", written by the goroutine before the call.
ProcessingLine(path) == {Line("processing", path)}

\* "Running command: ssh ... '<script>'", written by executeSSHCommand; the
\* script names the archive path.
RunningLine(path) == {Line("running", path)}

\* What is written once the ssh call is over: "Command failed" and
\* "# SSH script for <path>" after a failure, else "Command succeeded" and
\* "Successfully processed upload: <path>".
EndLines(path, failed) ==
    IF failed
    THEN {Line("command failed", <<>>), Line("script", path)}
    ELSE {Line("command succeeded", <<>>), Line("success", path)}

\* The error returned only inside the 'if config.Verbose' block.
UploadError_IfVerbose(cfg, out) == cfg.Verbose /\ ExitFailed(out)

\* if _, err := executeSSHCommand(config, script); err != nil {
\*     if config.Verbose { log.Printf(...) }; return err }
\* whether processUploadSingleCommand returns an error after the call.
UploadError(cfg, out) == ExitFailed(out)

\* ssh run for the target <SSHUser>@<RemoteHost>: with an empty host it
\* fails before it runs anything; an empty key path leaves ssh its other
\* identities.  The outside faults of the next remote command.
CommandFaults(cfg) == IF cfg.RemoteHost = "" THEN {TRUE} ELSE BOOLEAN

\* processUploadSingleCommand up to the start of the ssh call: derive the
\* name, choose the temp directory, render the script, start ssh.
ProcessUpload(i) ==
    /\ task[i].pc = "started"
    /\ LET upload == task[i].upload
           d      == DeriveBinaryName(upload.Path)
       IN IF ~d.ok
          THEN /\ task' = [task EXCEPT ![i] = [@ EXCEPT !.pc = "returned", !.err = TRUE]]
               /\ log' = log \cup LogLines(config.Verbose, ProcessingLine(upload.Path))
               /\ UNCHANGED now
          ELSE \E t \in ClockReads :
                 /\ now' = t
                 /\ task' = [task EXCEPT ![i] =
                      [@ EXCEPT !.pc = "ssh",
                                !.script = RenderScript(MakeScriptData(upload, d.name, t)),
                                !.calls = @ + 1]]
                 /\ log' = log \cup LogLines(config.Verbose,
                              ProcessingLine(upload.Path) \cup RunningLine(upload.Path))
    /\ UNCHANGED <<config, caller, pc, spawned, wg, errChan, closed, result, remote>>

\* The remote shell runs the next command of the script of task i.
RemoteCommand(i) ==
    /\ task[i].pc = "ssh"
    /\ ~ScriptOver(task[i].script.ops, task[i].out)
    /\ \E fault \in CommandFaults(config) :
         LET s == StepScript(task[i].script, task[i].out, remote, fault)
         IN /\ task' = [task EXCEPT ![i].out = s.out]
            /\ remote' = s.r
    /\ UNCHANGED <<config, caller, pc, spawned, wg, errChan, closed, result, now, log>>

\* Outside faults of an ssh call seen as one step: none (0), or the call
\* fails before the script's first command (1).
CallFaults == {0, 1}

\* The same for the target of cfg.
CallFaultsOf(cfg) == IF cfg.RemoteHost = "" THEN {1} ELSE CallFaults

\* As ProcessUploadSingleCommand below, with a failed call tried once more.
ProcessUploadSingleCommand_Retry(i) ==
    /\ task[i].pc = "started"
    /\ LET upload == task[i].upload
           d      == DeriveBinaryName(upload.Path)
       IN \E t \in ClockReads, faultAt \in CallFaultsOf(config) :
            LET script == RenderScript(MakeScriptData(upload, d.name, t))
                s      == RunScript(script, <<>>, remote, faultAt)
            IN /\ now' = t
               /\ remote' = s.r
               /\ log' = log
               /\ task' = [task EXCEPT ![i] =
                    [@ EXCEPT !.pc = "returned",
                              !.script = script,
                              !.out = s.out,
                              !.calls = IF ExitFailed(s.out) THEN @ + 2 ELSE @ + 1,
                              !.err = UploadError(config, s.out)]]
    /\ UNCHANGED <<config, caller, pc, spawned, wg, errChan, closed, result>>

\* processUploadSingleCommand as one step: derive the name, choose the temp
\* directory, render the script, and executeSSHCommand runs the script on
\* the remote host from start to end and returns its exit status.
ProcessUploadSingleCommand(i) ==
    /\ task[i].pc = "started"
    /\ LET upload == task[i].upload
           d      == DeriveBinaryName(upload.Path)
       IN IF ~d.ok
          THEN /\ task' = [task EXCEPT ![i] = [@ EXCEPT !.pc = "returned", !.err = TRUE]]
               /\ log' = log \cup LogLines(config.Verbose, ProcessingLine(upload.Path))
               /\ UNCHANGED <<now, remote>>
          ELSE \E t \in ClockReads, faultAt \in CallFaultsOf(config) :
                 LET script == RenderScript(MakeScriptData(upload, d.name, t))
                     s      == RunScript(script, <<>>, remote, faultAt)
                 IN /\ now' = t
                    /\ remote' = s.r
                    /\ log' = log \cup LogLines(config.Verbose,
                                 ProcessingLine(upload.Path) \cup RunningLine(upload.Path)
                                     \cup EndLines(upload.Path, ExitFailed(s.out)))
                    /\ task' = [task EXCEPT ![i] =
                         [@ EXCEPT !.pc = "returned",
                                   !.script = script,
                                   !.out = s.out,
                                   !.calls = @ + 1,
                                   !.err = UploadError(config, s.out)]]
    /\ UNCHANGED <<config, caller, pc, spawned, wg, errChan, closed, result>>

\* executeSSHCommand returns: an error when the script's exit status is not
\* zero; processUploadSingleCommand passes it on.
SSHReturn(i) ==
    /\ task[i].pc = "ssh"
    /\ ScriptOver(task[i].script.ops, task[i].out)
    /\ task' = [task EXCEPT ![i] = [@ EXCEPT !.pc = "returned",
                                             !.err = UploadError(config, task[i].out)]]
    /\ log' = log \cup LogLines(config.Verbose,
                 EndLines(task[i].upload.Path, ExitFailed(task[i].out)))
    /\ UNCHANGED <<config, caller, pc, spawned, wg, errChan, closed, result, remote, now>>

\* An unbuffered channel.
ChanCap_Unbuffered(uploads) == 0

\* make(chan error, len(config.Uploads)): the capacity of errChan.
ChanCap(uploads) == Len(uploads)

\* A channel that hands out the newest error first.
Send_Front(chan, e) == <<e>> \o chan

\* errChan <- e: the channel hands out its values in the order they were
\* sent.
Send(chan, e) == Append(chan, e)

\* The end of the goroutine: errChan <- error on failure, then the deferred
\* wg.Done().  The send needs room in the channel.
GoFuncExit(i) ==
    /\ task[i].pc = "returned"
    /\ IF task[i].err
       THEN /\ Len(errChan) < ChanCap(config.Uploads)
            /\ errChan' = Send(errChan, [path |-> task[i].upload.Path])
       ELSE UNCHANGED errChan
    /\ wg' = wg - 1
    /\ task' = [task EXCEPT ![i].pc = "done"]
    /\ UNCHANGED <<config, caller, pc, spawned, closed, result, remote, now, log>>

\* ------------------------------------------------------------------ main
\* if remoteHost == "" || sshKeyPath == "" || len(uploads) == 0
MissingFlags(host, key, uploads) == host = "" \/ key = "" \/ Len(uploads) = 0

\* main after flag.Parse: with a required flag missing it prints the usage
\* and exits with status 1, else it builds the configuration and calls
\* InstallBinaries.
MainCheck ==
    /\ pc = "main"
    /\ IF MissingFlags(config.RemoteHost, config.SSHKeyPath, config.Uploads)
       THEN pc' = "exit1" /\ UNCHANGED log
       ELSE /\ pc' = "entry"
            /\ log' = log \cup LogLines(config.Verbose, {Line("starting", <<>>)})
    /\ UNCHANGED <<config, caller, spawned, wg, errChan, closed, result, task, remote, now>>

\* main after InstallBinaries returned: log.Fatalf on an error.
MainEnd ==
    /\ caller = "cli"
    /\ pc = "returned"
    /\ IF result.err
       THEN pc' = "exit1" /\ log' = log \cup {Line("fatal", result.path)}
       ELSE pc' = "exit0" /\ UNCHANGED log
    /\ UNCHANGED <<config, caller, spawned, wg, errChan, closed, result, task, remote, now>>

Next ==
    \/ CheckUploads
    \/ GoFunc
    \/ WaitAndClose
    \/ Drain
    \/ \E i \in Tasks : ProcessUpload(i)
    \/ \E i \in Tasks : RemoteCommand(i)
    \/ \E i \in Tasks : SSHReturn(i)
    \/ \E i \in Tasks : GoFuncExit(i)

NextOrch ==
    \/ CheckUploads
    \/ GoFunc
    \/ WaitAndClose
    \/ Drain
    \/ \E i \in Tasks : ProcessUploadSingleCommand(i)
    \/ \E i \in Tasks : GoFuncExit(i)

Spec == Init /\ [][Next]_vars

SpecOrch == InitOrch /\ [][NextOrch]_vars

\* The goroutine of upload i, its ssh call included.
TaskStep(i) ==
    /\ i \in Tasks
    /\ ProcessUpload(i) \/ RemoteCommand(i) \/ SSHReturn(i) \/ GoFuncExit(i)

\* The goroutine that runs InstallBinaries.
InstallStep == CheckUploads \/ GoFunc \/ WaitAndClose \/ Drain

InitFair == \E u \in SeqsUpTo(OrchUploads, MaxScriptUploads) : InitWith(u)

\* Spec for the uploads of SpecOrch, with a scheduler that lets every
\* goroutine that can run do so in the end and with ssh calls that run their
\* next command or return.
FairSpec ==
    /\ InitFair /\ [][Next]_vars
    /\ WF_vars(InstallStep)
    /\ \A i \in 1..MaxScriptUploads : WF_vars(TaskStep(i))

SpecName == InitName /\ [][NextOrch]_vars

NextConfig ==
    \/ MainCheck
    \/ MainEnd
    \/ CheckUploads
    \/ GoFunc
    \/ WaitAndClose
    \/ Drain
    \/ \E i \in Tasks : ProcessUploadSingleCommand(i)
    \/ \E i \in Tasks : GoFuncExit(i)

SpecConfig == InitAnyConfig /\ [][NextConfig]_vars

\* ------------------------------------------------------------ vocabulary
Finished(i)  == task[i].pc \in {"returned", "done"}
Failed(i)    == Finished(i) /\ task[i].err
Succeeded(i) == Finished(i) /\ ~task[i].err

RECURSIVE CallsUpTo(_)
\* The executor calls of tasks 1..k together.
CallsUpTo(k) == IF k = 0 THEN 0 ELSE task[k].calls + CallsUpTo(k - 1)

ExecutorCalls == CallsUpTo(N)

Returned == result.returned

\* ------------------------------------------------- claims, orchestration
\* C1: InstallBinaries called with an empty Uploads list returns an error,
\* makes no remote executor call and starts no upload task: it goes from its
\* entry straight to the return, the wait group and the channel stay
\* untouched and the remote host is as it was.
C1_EmptyUploadsRejected ==
    N = 0 =>
        /\ pc \in {"entry", "returned"}
        /\ spawned = 0 /\ wg = 0 /\ errChan = <<>> /\ ~closed
        /\ ExecutorCalls = 0
        /\ remote = InitRemote(0)
        /\ Returned => result.err /\ result.msg = "no uploads provided"

C1_Witness == N = 0 /\ Returned /\ result.err

\* C2: with a non-empty Uploads list every upload gets exactly one remote
\* executor call in a run: never more than one at any time, exactly one
\* once its task has finished, and exactly one for each upload when
\* InstallBinaries returns, whether the siblings failed or succeeded.
C2_OneCallPerUpload ==
    /\ \A i \in Tasks :
         /\ task[i].calls <= 1
         /\ Finished(i) => task[i].calls = 1
    /\ (Returned /\ N > 0) =>
         /\ \A i \in Tasks : task[i].calls = 1
         /\ ExecutorCalls = N

\* A run of three uploads has returned, the first failed, the later two
\* succeeded and each had its call.
C2_Witness ==
    /\ Returned /\ N = 3
    /\ Failed(1) /\ Succeeded(2) /\ Succeeded(3)
    /\ \A i \in Tasks : task[i].calls = 1

\* C3: for a non-empty Uploads list InstallBinaries returns nil if and only
\* if every upload's task succeeded (its script exited with status zero);
\* with at least one failed upload it returns an error.
C3_NilIffAllSucceeded ==
    (Returned /\ N > 0) =>
        /\ ~result.err <=> \A i \in Tasks : Succeeded(i) /\ ~ExitFailed(task[i].out)
        /\ result.err <=> \E i \in Tasks : Failed(i)

C3_Witness ==
    /\ Returned /\ N = 3 /\ result.err
    /\ Succeeded(1) /\ Succeeded(2) /\ Failed(3)

PathsDistinct ==
    \A i, j \in Tasks : i # j => config.Uploads[i].Path # config.Uploads[j].Path

\* The case of three uploads of which only the second fails.
OnlySecondOfThreeFailed ==
    N = 3 /\ Succeeded(1) /\ Failed(2) /\ Succeeded(3)

\* C4 as stated: an error returned for a non-empty Uploads list carries the
\* source path of an upload that failed in this run and never the path of
\* an upload that succeeded; with three uploads of which only the second
\* fails it carries the second's path and all three calls were made.
C4_AsStated ==
    (Returned /\ N > 0 /\ result.err) =>
        /\ \E i \in Tasks : Failed(i) /\ result.path = config.Uploads[i].Path
        /\ \A j \in Tasks : Succeeded(j) => result.path # config.Uploads[j].Path
        /\ OnlySecondOfThreeFailed =>
             /\ result.path = config.Uploads[2].Path
             /\ \A i \in Tasks : task[i].calls = 1

\* C4 (amended): an error returned for a non-empty Uploads list carries the
\* source path of an upload that failed in this run; when the source paths
\* of the uploads are pairwise different it is never the path of an upload
\* that succeeded; with three uploads of which only the second fails it
\* carries the second's path and all three calls were made.
C4_ErrorNamesFailedUpload ==
    (Returned /\ N > 0 /\ result.err) =>
        /\ \E i \in Tasks : Failed(i) /\ result.path = config.Uploads[i].Path
        /\ PathsDistinct =>
             \A j \in Tasks : Succeeded(j) => result.path # config.Uploads[j].Path
        /\ OnlySecondOfThreeFailed =>
             /\ result.path = config.Uploads[2].Path
             /\ \A i \in Tasks : task[i].calls = 1

\* Three uploads, the second with a path of its own is the only one that
\* failed, and the error returned names it.
C4_Witness ==
    /\ Returned /\ result.err /\ OnlySecondOfThreeFailed
    /\ config.Uploads[1].Path # config.Uploads[2].Path
    /\ config.Uploads[3].Path # config.Uploads[2].Path
    /\ result.path = config.Uploads[2].Path
    /\ ExecutorCalls = 3

DrainStarted == pc \in {"drain", "returned"} /\ N > 0

\* C5: InstallBinaries neither begins to drain the error channel nor
\* returns before every upload task has completed, and once the channel is
\* closed for the drain no error is written to it any more.
C5_DrainAfterAllTasks ==
    /\ [](DrainStarted => (wg = 0 /\ \A i \in Tasks : task[i].pc = "done"))
    /\ [][closed => errChan' = errChan]_vars

\* The drain has started on a channel that holds the errors of two tasks.
C5_Witness == pc = "drain" /\ closed /\ Len(errChan) = 2

\* ------------------------------------------------ claims, remote script
Rendered(i) == task[i].pc \in {"ssh", "returned", "done"}

BinaryNameOf(i) == DeriveBinaryName(config.Uploads[i].Path).name
DestKey(i) == <<config.Uploads[i].DestinationDir, BinaryNameOf(i)>>

\* The names of the commands task i has run, in the order they ran.
Ran(i) == [k \in DOMAIN task[i].out |-> task[i].out[k].op]

\* C6: every composed script has the steps in the fixed order: create temp
\* dir, extract, check the binary, create backup dir, conditional backup
\* move, copy, chown, chmod, remove temp dir and, only if requested, the
\* capability grant; the remote shell runs them in that order, so the check
\* runs before every backup or copy and the removal before the grant.
C6_FixedStepOrder ==
    \A i \in Tasks : Rendered(i) =>
        LET ops == task[i].script.ops
            ran == Ran(i)
        IN /\ Len(ops) = IF config.Uploads[i].BindLowPorts THEN 10 ELSE 9
           /\ SubSeq(ops, 1, 9) =
                <<"mkdir_tmp", "tar", "test", "mkdir_backup", "backup_mv",
                  "cp", "chown", "chmod", "rm_tmp">>
           /\ Len(ops) = 10 => ops[10] = "setcap"
           /\ ran = SubSeq(ops, 1, Len(ran))
           /\ \A k, m \in DOMAIN ran :
                /\ (ran[k] = "test" /\ ran[m] \in {"backup_mv", "cp"}) => k < m
                /\ (ran[k] = "rm_tmp" /\ ran[m] = "setcap") => k < m

\* A script with the capability grant has run all ten commands.
C6_Witness ==
    \E i \in Tasks :
        /\ Len(task[i].out) = 10
        /\ task[i].out[3].op = "test" /\ task[i].out[10].op = "setcap"

\* C7: within one upload's script no command runs after a failed one and
\* the task then returns an error, and a task returns an error only if a
\* command failed; the backup step succeeds and changes nothing on the host
\* when no binary of the name exists at the destination (and nothing
\* outside fails it).
C7_FailFast ==
    /\ [](\A i \in Tasks :
            /\ \A k \in DOMAIN task[i].out :
                 ~task[i].out[k].ok => k = Len(task[i].out)
            /\ Finished(i) =>
                 (task[i].err <=> \E k \in DOMAIN task[i].out : ~task[i].out[k].ok))
    /\ [][\A i \in Tasks :
            LET before == task[i].out
                after  == task'[i].out
            IN (/\ Len(after) = Len(before) + 1
                /\ after[Len(after)].op = "backup_mv"
                /\ ~after[Len(after)].fault
                /\ ~remote.dest[DestKey(i)].present)
               => (after[Len(after)].ok /\ remote' = remote)]_vars

\* An upload to a destination without the binary: its backup step succeeded
\* with the backup directory as it was, then the copy failed, nothing ran
\* after it and the task returned an error.
C7_Witness ==
    \E i \in Tasks :
        /\ N = 1
        /\ config.Uploads[i].DestinationDir = "/opt"
        /\ Failed(i)
        /\ Len(task[i].out) = 6
        /\ task[i].out[5].op = "backup_mv" /\ task[i].out[5].ok
        /\ task[i].out[6].op = "cp" /\ ~task[i].out[6].ok
        /\ remote.bak = InitRemote(N).bak

EarlyFail(i) ==
    \E k \in DOMAIN task[i].out :
        ~task[i].out[k].ok /\ task[i].out[k].op \in {"tar", "test"}

\* Task i has run a command that changes the destination or the backups.
Touching(i) ==
    \E k \in DOMAIN task[i].out :
        /\ task[i].out[k].ok
        /\ task[i].out[k].op \in {"backup_mv", "cp", "chown", "chmod", "setcap"}

\* C8: an upload whose extraction or existence check fails has run no
\* command on the destination or the backup directory, and the commands it
\* did run (up to the creation of the backup directory) leave every
\* installed binary and every backup as they were: its destination binary is
\* as before the run unless a sibling upload of the same name and
\* destination changed it, and the backup directory's contents are as
\* before the run unless a sibling got as far as its backup step.
C8_BadArchiveLeavesInstallation ==
    /\ [](\A i \in Tasks : EarlyFail(i) =>
            /\ ~Touching(i)
            /\ (\A j \in Tasks \ {i} : DestKey(j) = DestKey(i) => ~Touching(j))
                 => remote.dest[DestKey(i)] = InitRemote(N).dest[DestKey(i)]
            /\ (\A j \in Tasks \ {i} : ~Touching(j))
                 => remote.bak = InitRemote(N).bak)
    /\ [][\A i \in Tasks :
            LET after == task'[i].out
            IN (/\ Len(after) = Len(task[i].out) + 1
                /\ after[Len(after)].op \in {"mkdir_tmp", "tar", "test", "mkdir_backup"})
               => (remote'.dest = remote.dest /\ remote'.bak = remote.bak)]_vars

\* One upload failed its existence check and another its extraction, both
\* have returned, and the binary b installed before the run is in place.
C8_Witness ==
    \E i, j \in Tasks :
        /\ Failed(i) /\ Failed(j)
        /\ Len(task[i].out) = 3 /\ ~task[i].out[3].ok /\ ~task[i].out[3].fault
        /\ Len(task[j].out) = 2 /\ ~task[j].out[2].ok /\ ~task[j].out[2].fault
        /\ DestKey(i) = <<"/bin", NameB>>
        /\ remote.dest[DestKey(i)].content = "b0"

\* Every command of the script of task i has run and succeeded.
AllOk(i) ==
    /\ Rendered(i)
    /\ Len(task[i].out) = Len(task[i].script.ops)
    /\ \A k \in DOMAIN task[i].out : task[i].out[k].ok

\* No two uploads of the run install the same name into the same directory.
KeysDistinct == \A i, j \in Tasks : i # j => DestKey(i) # DestKey(j)

TempDirsDistinct ==
    \A i, j \in Tasks :
        (i # j /\ Rendered(i) /\ Rendered(j))
            => task[i].script.data.TempDir # task[j].script.data.TempDir

\* The state C9 promises for upload i.
Installed(i) ==
    LET u == config.Uploads[i]
        f == remote.dest[DestKey(i)]
    IN /\ f.present
       /\ <<BinaryNameOf(i), f.content>> \in ArchiveAt(u.Path).files
       /\ f.owner = u.Owner
       /\ f.mode = u.Permission
       /\ f.cap = u.BindLowPorts
       /\ ~remote.tmp[task[i].script.data.TempDir].exists

\* C9 as stated, for runs whose uploads have pairwise different (name,
\* destination) pairs: once all commands of an upload's script have
\* succeeded, the destination holds the binary of its archive with the
\* configured owner and mode, the capability if and only if BindLowPorts,
\* and its temp directory is gone.
C9_AsStated ==
    KeysDistinct => \A i \in Tasks : AllOk(i) => Installed(i)

\* What holds of the code: the same in the runs whose tasks drew different
\* temp directory names.
C9_InstalledWhenTempDirsDiffer ==
    (KeysDistinct /\ TempDirsDistinct) => \A i \in Tasks : AllOk(i) => Installed(i)

C9_Reached ==
    \E i \in Tasks : N = 2 /\ KeysDistinct /\ TempDirsDistinct /\ AllOk(i)

Commands(ops) == {ops[k] : k \in DOMAIN ops}

\* C10: the composed script contains the capability grant (setcap) if and
\* only if the upload's BindLowPorts flag is true, and an upload with the
\* flag false never runs a capability grant.
C10_SetcapIffBindLowPorts ==
    \A i \in Tasks : Rendered(i) =>
        /\ "setcap" \in Commands(task[i].script.ops) <=> config.Uploads[i].BindLowPorts
        /\ ~config.Uploads[i].BindLowPorts => "setcap" \notin Commands(Ran(i))

\* Of two uploads the one without the flag has succeeded without a grant on
\* its binary, the one with the flag has run its grant.
C10_Witness ==
    \E i, j \in Tasks :
        /\ ~config.Uploads[i].BindLowPorts /\ Succeeded(i) /\ AllOk(i)
        /\ ~remote.dest[DestKey(i)].cap
        /\ config.Uploads[j].BindLowPorts /\ AllOk(j)
        /\ task[j].out[10].op = "setcap"

\* --------------------------------------------------- claims, backup step
\* No other upload of the run has the binary name of upload i.
NameAlone(i) == \A j \in Tasks \ {i} : BinaryNameOf(j) # BinaryNameOf(i)

\* The binary a successful script of upload i leaves at its destination.
InstalledFile(i) ==
    LET u == config.Uploads[i]
        f == CHOOSE g \in ArchiveAt(u.Path).files : g[1] = BinaryNameOf(i)
    IN [present |-> TRUE, content |-> f[2], owner |-> u.Owner,
        mode |-> u.Permission, cap |-> u.BindLowPorts]

\* Task i has taken a successful backup step in the current step.
BackupStep(i) ==
    LET after == task'[i].out
    IN /\ Len(after) = Len(task[i].out) + 1
       /\ after[Len(after)].op = "backup_mv"
       /\ after[Len(after)].ok

\* C11: the backup directory changes only by the backup step of an upload
\* that finds a binary of its name at its destination, and then holds
\* exactly that binary under the name in place of any earlier backup of the
\* name; a backup step that finds no binary leaves the host as it is.  So an
\* upload that is alone with its name in the run and succeeds leaves in the
\* backup directory the binary its destination held before the run, or the
\* earlier backup when the destination held none, and of two successive
\* successful installs of one name into one destination, the second
\* starting after the first is complete, the backup is the binary the first
\* installed.
C11_BackupIsPreviousBinary ==
    /\ [][\A n \in FileNames :
            remote'.bak[n] # remote.bak[n] =>
                \E i \in Tasks :
                    /\ BackupStep(i)
                    /\ BinaryNameOf(i) = n
                    /\ remote.dest[DestKey(i)].present
                    /\ remote'.bak[n] = remote.dest[DestKey(i)]]_vars
    /\ [][\A i \in Tasks :
            (BackupStep(i) /\ ~remote.dest[DestKey(i)].present)
                => remote' = remote]_vars
    /\ [](\A i \in Tasks : (NameAlone(i) /\ AllOk(i)) =>
            remote.bak[BinaryNameOf(i)] =
                IF InitRemote(N).dest[DestKey(i)].present
                THEN InitRemote(N).dest[DestKey(i)]
                ELSE InitRemote(N).bak[BinaryNameOf(i)])
    /\ \A i, j \in 1..2 :
         []((/\ N = 2 /\ i # j /\ DestKey(i) = DestKey(j)
             /\ AllOk(i) /\ task[j].out = <<>>)
                => []((N = 2 /\ AllOk(i) /\ AllOk(j))
                        => remote.bak[BinaryNameOf(j)] = InstalledFile(i)))

\* Two installs of the name a into /bin have succeeded one after the other:
\* the destination holds the second binary, the backup directory the first
\* as it was installed, and the backup of before the run is gone.
C11_Witness ==
    \E i, j \in Tasks :
        /\ N = 2 /\ i # j /\ DestKey(i) = DestKey(j)
        /\ AllOk(i) /\ AllOk(j)
        /\ InstalledFile(i).content # InstalledFile(j).content
        /\ remote.bak[NameA] = InstalledFile(i)
        /\ remote.dest[DestKey(j)] = InstalledFile(j)

\* ---------------------------------------------- claims, name derivation
NoChar(s, c) == \A k \in DOMAIN s : s[k] # c

\* path is <dir><name>_<rest>.tar.gz: its first d characters are the
\* directory part, the next n the name.
NamedArchive(path, d, n) ==
    /\ d = 0 \/ path[d] = "/"
    /\ n >= 1
    /\ Len(path) >= d + n + 1 + Len(TarGz)
    /\ NoChar(SubSeq(path, d + 1, Len(path)), "/")
    /\ NoChar(SubSeq(path, d + 1, d + n), "_")
    /\ path[d + n + 1] = "_"
    /\ HasSuffix(path, TarGz)

\* C12: for an archive path whose file name is <name>_<rest>.tar.gz with a
\* non-empty <name> free of underscores, the derivation succeeds and the
\* binary name the script is rendered with is exactly <name>: the directory
\* part is dropped, .tar.gz is stripped, everything from the first
\* underscore on is discarded.
C12_NameBeforeFirstUnderscore ==
    \A i \in Tasks : Finished(i) =>
        LET path == config.Uploads[i].Path
        IN \A d \in 0..Len(path), n \in 1..Len(path) :
             NamedArchive(path, d, n) =>
                /\ DeriveBinaryName(path).ok
                /\ task[i].calls = 1
                /\ task[i].script.data.BinaryName = SubSeq(path, d + 1, d + n)

\* The script of /u/a._x.tar.gz, a path with a directory part, a dot in
\* the name and a second underscore, was rendered for the name "a.".
C12_Witness ==
    \E i \in Tasks :
        LET path == config.Uploads[i].Path
        IN /\ Finished(i)
           /\ NamedArchive(path, 3, 2)
           /\ SubSeq(path, 6, 7) = <<"_", "_">>
           /\ task[i].script.data.BinaryName = <<"a", ".">>

\* The file name of path is .tar.gz alone or _<rest>.tar.gz: nothing stands
\* before the extension or before the first underscore.
Nameless(path) ==
    LET base == Base(path)
    IN /\ HasSuffix(base, TarGz)
       /\ base = TarGz \/ base[1] = "_"

\* C13 as stated: the task of an upload whose archive name yields no binary
\* name (_foo.tar.gz, .tar.gz) returns an error without making a remote
\* executor call, and the other uploads of the run are still processed.
C13_AsStated ==
    \A i \in Tasks : (Finished(i) /\ Nameless(config.Uploads[i].Path)) =>
        /\ task[i].err
        /\ task[i].calls = 0
        /\ Returned => \A j \in Tasks \ {i} : task[j].calls = 1

\* What the code does with such a path: the derivation yields the empty
\* name, the script is rendered with it and the executor call is made; the
\* script fails before its backup step, so the upload does fail and the
\* destinations and backups stay as they were.
C13_NamelessFailsRemotely ==
    \A i \in Tasks : (Finished(i) /\ Nameless(config.Uploads[i].Path)) =>
        /\ DeriveBinaryName(config.Uploads[i].Path) = [ok |-> TRUE, name |-> <<>>]
        /\ task[i].calls = 1
        /\ task[i].script.data.BinaryName = <<>>
        /\ task[i].err
        /\ ~Touching(i)

C13_Reached ==
    \E i \in Tasks :
        /\ Returned /\ N = 2 /\ i = 1
        /\ config.Uploads[i].Path = <<"_", "x">> \o TarGz
        /\ Failed(i) /\ task[i].calls = 1
        /\ Succeeded(2)

\* ------------------------------------------------ claims, temp directory
\* Task i is between the first command of its script and the end of it.
UsingTempDir(i) ==
    /\ task[i].pc = "ssh"
    /\ Len(task[i].out) > 0
    /\ ~ScriptOver(task[i].script.ops, task[i].out)

\* C14 as stated: any two upload tasks of a run have different temp
\* directories, so no task extracts into, checks, copies from or removes
\* the temp directory of another task.
C14_AsStated ==
    \A i, j \in Tasks :
        (i # j /\ Rendered(i) /\ Rendered(j))
            => task[i].script.data.TempDir # task[j].script.data.TempDir

\* Two tasks are in the middle of their scripts with the same temp
\* directory, which holds the files one of them extracted.
C14_Reached ==
    \E i, j \in Tasks :
        /\ i # j /\ UsingTempDir(i) /\ UsingTempDir(j)
        /\ task[i].script.data.TempDir = task[j].script.data.TempDir
        /\ remote.tmp[task[i].script.data.TempDir].files # {}

\* ------------------------------------------------- claims, interleavings
\* No command of the run failed for a reason outside the files modelled.
NoFaults ==
    \A i \in Tasks : \A k \in DOMAIN task[i].out : ~task[i].out[k].fault

RECURSIVE InOrder(_, _)
\* The host after the scripts of uploads 1..k have run on r one after the
\* other, each in a temp directory of its own.
InOrder(k, r) ==
    IF k = 0 THEN r
    ELSE LET u      == config.Uploads[k]
             script == RenderScript(MakeScriptData(u, DeriveBinaryName(u.Path).name, k))
         IN RunScript(script, <<>>, InOrder(k - 1, r), 0).r

\* C15 as stated: for uploads whose (name, destination) pairs are pairwise
\* different, the contents of every destination and of the backup directory
\* at the end of the run are the same under every interleaving of the
\* tasks' remote commands: those of the scripts run one after the other.
C15_AsStated ==
    (Returned /\ KeysDistinct /\ NoFaults) =>
        /\ remote.dest = InOrder(N, InitRemote(N)).dest
        /\ remote.bak = InOrder(N, InitRemote(N)).bak

\* What holds of the code: the same in the runs whose tasks drew different
\* temp directory names.
C15_SameWhenTempDirsDiffer ==
    (Returned /\ KeysDistinct /\ TempDirsDistinct /\ NoFaults) =>
        /\ remote.dest = InOrder(N, InitRemote(N)).dest
        /\ remote.bak = InOrder(N, InitRemote(N)).bak

\* A run of two uploads of different destinations has returned without any
\* outside fault and with both scripts successful.
C15_Reached ==
    /\ Returned /\ N = 2 /\ KeysDistinct /\ NoFaults
    /\ \A i \in Tasks : AllOk(i)

\* -------------------------------------------- claims, the configuration
\* The failure of upload i has reached the caller: it is the error returned
\* or a log line about a failure carries its path.
Reported(i) ==
    \/ result.err /\ result.path = config.Uploads[i].Path
    \/ \E l \in log : l.kind \in {"script", "fatal"} /\ l.path = config.Uploads[i].Path

\* C16 as stated: every upload that failed in a run is reported to the
\* caller by the returned error or by the log, with Verbose on or off and
\* however many uploads failed.
C16_AsStated ==
    Returned => \A i \in Tasks : Failed(i) => Reported(i)

\* C16: when an upload failed, InstallBinaries returns an error and the
\* error carries the path of an upload that failed, the one whose error is
\* first in the channel; with Verbose on the log has a "# SSH script for
\* <path>" line for every upload that failed; with Verbose off
\* InstallBinaries logs nothing, so the failures behind the first one reach
\* the caller only when they carry the same path.
C16_FirstFailureReported ==
    (Returned /\ N > 0) =>
        /\ (\E i \in Tasks : Failed(i)) =>
              /\ result.err
              /\ \E i \in Tasks : Failed(i) /\ result.path = config.Uploads[i].Path
              /\ result.path = errChan[1].path
        /\ config.Verbose =>
              \A i \in Tasks : Failed(i) => Line("script", config.Uploads[i].Path) \in log
        /\ ~config.Verbose =>
              /\ \A l \in log : l.kind = "fatal"
              /\ \A i \in Tasks :
                    (Failed(i) /\ Reported(i)) => config.Uploads[i].Path = result.path

\* Two uploads of different paths have failed with Verbose off: the run
\* returned the error of one and nothing reports the failure of the other.
C16_Witness ==
    \E i, j \in Tasks :
        /\ Returned /\ ~config.Verbose
        /\ Failed(i) /\ Failed(j)
        /\ config.Uploads[i].Path # config.Uploads[j].Path
        /\ Reported(i) /\ ~Reported(j)

\* The required target fields of the configuration.
MissingTarget == config.RemoteHost = "" \/ config.SSHKeyPath = ""

\* C17 as stated: with an empty remote host or an empty SSH key path no
\* remote executor call is ever made.
C17_AsStated == MissingTarget => ExecutorCalls = 0

\* What the code does: main rejects such flags before it calls
\* InstallBinaries; InstallBinaries called directly starts every upload and
\* returns the error of a failed ssh call when the host is empty.
C17_OnlyMainRejects ==
    /\ (caller = "cli" /\ MissingTarget) => (ExecutorCalls = 0 /\ pc \in {"main", "exit1"})
    /\ (caller = "package" /\ N > 0) => pc # "exit1"
    /\ (caller = "package" /\ config.RemoteHost = "" /\ Returned /\ N > 0) =>
            (result.err /\ ExecutorCalls = N)

C17_Reached ==
    /\ caller = "package" /\ config.RemoteHost = "" /\ N = 2
    /\ Returned /\ result.err /\ ExecutorCalls = 2

\* ------------------------------------------------ claims, two runs compared
\* The state as one value, now and after the step.
State ==
    [config |-> config, caller |-> caller, pc |-> pc, spawned |-> spawned,
     wg |-> wg, errChan |-> errChan, closed |-> closed, result |-> result,
     task |-> task, remote |-> remote, now |-> now, log |-> log]

StateAfter ==
    [config |-> config', caller |-> caller', pc |-> pc', spawned |-> spawned',
     wg |-> wg', errChan |-> errChan', closed |-> closed', result |-> result',
     task |-> task', remote |-> remote', now |-> now', log |-> log']

\* The steps InstallBinaries can take in state s, each with what the
\* scheduler, the clock and the remote executor decide in it: the task that
\* moves, the time read, the outcome of the ssh call.
StepsOf(s) ==
    LET ids == 1..Len(s.config.Uploads)
    IN {[a |-> a, i |-> 0, t |-> 0, faultAt |-> 0] :
            a \in {"CheckUploads", "GoFunc", "WaitAndClose", "Drain"}}
       \cup {[a |-> "GoFuncExit", i |-> i, t |-> 0, faultAt |-> 0] : i \in ids}
       \cup {[a |-> "ProcessUploadSingleCommand", i |-> i, t |-> t, faultAt |-> f] :
                i \in ids, t \in {u \in {s.now, s.now + 1} : u >= 1},
                f \in CallFaultsOf(s.config)}

\* Step l can be taken in state s.
CanStep(s, l) ==
    LET n == Len(s.config.Uploads)
    IN CASE l.a = "CheckUploads" -> s.pc = "entry"
         [] l.a = "GoFunc"       -> s.pc = "spawn" /\ s.spawned < n
         [] l.a = "WaitAndClose" -> s.pc = "wait" /\ WaitDone(s.wg)
         [] l.a = "Drain"        -> s.pc = "drain"
         [] l.a = "ProcessUploadSingleCommand" -> s.task[l.i].pc = "started"
         [] l.a = "GoFuncExit"   ->
                /\ s.task[l.i].pc = "returned"
                /\ s.task[l.i].err => Len(s.errChan) < ChanCap(s.config.Uploads)

\* The state after step l of InstallBinaries in state s: the actions above
\* as a function of the state, so that the same step can be taken in the
\* states of two runs.
AfterStep(s, l) ==
    LET n == Len(s.config.Uploads)
    IN CASE l.a = "CheckUploads" ->
              IF NoUploads(s.config.Uploads)
              THEN [s EXCEPT !.result = ReturnError("no uploads provided", <<>>),
                             !.pc = "returned"]
              ELSE [s EXCEPT !.pc = IF n = 0 THEN "wait" ELSE "spawn"]
         [] l.a = "GoFunc" ->
              [s EXCEPT !.spawned = @ + 1,
                        !.wg = @ + 1,
                        !.task[s.spawned + 1] =
                            [@ EXCEPT !.pc = "started",
                                      !.upload = CapturedUpload(s.config.Uploads, s.spawned + 1)],
                        !.pc = IF s.spawned + 1 = n THEN "wait" ELSE "spawn"]
         [] l.a = "WaitAndClose" -> [s EXCEPT !.closed = TRUE, !.pc = "drain"]
         [] l.a = "Drain" ->
              [s EXCEPT !.result = DrainResult(s.errChan), !.pc = "returned"]
         [] l.a = "ProcessUploadSingleCommand" ->
              LET upload == s.task[l.i].upload
                  d      == DeriveBinaryName(upload.Path)
                  script == RenderScript(MakeScriptData(upload, d.name, l.t))
                  run    == RunScript(script, <<>>, s.remote, l.faultAt)
              IN IF ~d.ok
                 THEN [s EXCEPT !.task[l.i] = [@ EXCEPT !.pc = "returned", !.err = TRUE],
                                !.log = @ \cup LogLines(s.config.Verbose,
                                                  ProcessingLine(upload.Path))]
                 ELSE [s EXCEPT !.now = l.t,
                                !.remote = run.r,
                                !.task[l.i] =
                                    [@ EXCEPT !.pc = "returned",
                                              !.script = script,
                                              !.out = run.out,
                                              !.calls = @ + 1,
                                              !.err = UploadError(s.config, run.out)],
                                !.log = @ \cup LogLines(s.config.Verbose,
                                          ProcessingLine(upload.Path)
                                              \cup RunningLine(upload.Path)
                                              \cup EndLines(upload.Path, ExitFailed(run.out)))]
         [] l.a = "GoFuncExit" ->
              [s EXCEPT !.errChan = IF s.task[l.i].err
                                    THEN Send(@, [path |-> s.task[l.i].upload.Path])
                                    ELSE @,
                        !.wg = @ - 1,
                        !.task[l.i].pc = "done"]

\* What two runs that differ only in Verbose can differ in: s without it.
NonLog(s) == [s EXCEPT !.config.Verbose = FALSE, !.log = {}]

\* The state of the other run: Verbose is the opposite, the log is lg.
OtherRun(s, lg) == [s EXCEPT !.config.Verbose = ~@, !.log = lg]

\* Logs the other run may have written.
OtherLogs ==
    {{}} \cup {{Line("script", u.Path), Line("running", u.Path)} : u \in OrchUploads}

\* The current step is one of main, not of InstallBinaries.
MainStep == pc = "main" \/ pc' \in {"exit0", "exit1"}

\* C18: the Verbose flag changes logging only.  Every step of
\* InstallBinaries is a step l of StepsOf, and the run that differs in
\* Verbose alone (and in what it has logged) can take the same step l, with
\* the same time read and the same outcome of the ssh call, and is after it
\* in the same state but for Verbose and the log: the same scripts issued,
\* the same commands run with the same outcomes, the same remote state, the
\* same channel contents and the same result.  The two runs start in states
\* that differ in Verbose only, so they agree on all of this throughout.
C18_VerboseChangesLoggingOnly ==
    /\ [](Returned => (config.Verbose \/ \A l \in log : l.kind = "fatal"))
    /\ [][MainStep \/
            \E l \in StepsOf(State) :
                /\ CanStep(State, l)
                /\ AfterStep(State, l) = StateAfter
                /\ \A lg \in OtherLogs :
                      /\ CanStep(OtherRun(State, lg), l)
                      /\ StepsOf(OtherRun(State, lg)) = StepsOf(State)
                      /\ NonLog(AfterStep(OtherRun(State, lg), l)) = NonLog(StateAfter)]_vars

\* A verbose run of two uploads has returned an error after one failed
\* call and one script run to its end, and has logged both.
C18_Witness ==
    /\ config.Verbose /\ N = 2 /\ Returned /\ result.err
    /\ \E i, j \in Tasks :
          /\ Failed(i) /\ Line("script", config.Uploads[i].Path) \in log
          /\ Succeeded(j) /\ Line("success", config.Uploads[j].Path) \in log

\* --------------------------------------------- claims, which error returns
\* C19: the error channel grows only at its tail, by the error of a task
\* at the moment the task completes, so its order is the order in which the
\* failed tasks completed; the error InstallBinaries returns for a run with
\* failed uploads is the first of the channel, the failure that completed
\* first, whatever its position in Uploads.
C19_FirstCompletedFailureReturned ==
    /\ [][\/ errChan' = errChan
          \/ \E i \in Tasks :
                /\ task[i].pc = "returned" /\ task[i].err
                /\ task'[i].pc = "done"
                /\ errChan' = Append(errChan, [path |-> config.Uploads[i].Path])]_vars
    /\ []((Returned /\ \E i \in Tasks : Failed(i))
            => (result.err /\ result.path = errChan[1].path))

\* The first two uploads of the run have failed, the second completed
\* first: the error returned names the second, not the first.
C19_Witness ==
    /\ Returned /\ N >= 2
    /\ Failed(1) /\ Failed(2)
    /\ config.Uploads[1].Path # config.Uploads[2].Path
    /\ errChan[1].path = config.Uploads[2].Path
    /\ errChan[2].path = config.Uploads[1].Path
    /\ result.path = config.Uploads[2].Path

\* ------------------------------------------------- claims, no rollback
\* The script of task i moved the binary of its destination to the backup
\* directory and then failed at a later command.
FailedAfterBackup(i) ==
    /\ Failed(i)
    /\ InitRemote(N).dest[DestKey(i)].present
    /\ Len(task[i].out) \in 6..8
    /\ task[i].out[5].op = "backup_mv" /\ task[i].out[5].ok
    /\ ~task[i].out[Len(task[i].out)].ok

\* Task i has taken a successful copy step in the current step.
CopyStep(i) ==
    LET after == task'[i].out
    IN /\ Len(after) = Len(task[i].out) + 1
       /\ after[Len(after)].op = "cp"
       /\ after[Len(after)].ok

\* C20: nothing restores a binary: a file appears at a destination only by
\* the copy step of an upload of that name and destination, never out of the
\* backup directory.  So when the script of an upload (alone with its name in
\* the run) has moved the previous binary to the backup directory and then
\* failed at its copy, chown or chmod, the previous binary stays in the
\* backup directory and the destination holds no binary (copy failed) or the
\* new one with its setup incomplete, up to and after the return of
\* InstallBinaries.
C20_NoRollback ==
    /\ [][\A k \in DestDirs \X FileNames :
            (~remote.dest[k].present /\ remote'.dest[k].present)
                => \E i \in Tasks : CopyStep(i) /\ DestKey(i) = k]_vars
    /\ [](\A i \in Tasks : (FailedAfterBackup(i) /\ NameAlone(i)) =>
            /\ remote.bak[BinaryNameOf(i)] = InitRemote(N).dest[DestKey(i)]
            /\ remote.dest[DestKey(i)] # InitRemote(N).dest[DestKey(i)]
            /\ task[i].out[Len(task[i].out)].op \in {"cp", "chown", "chmod"}
            /\ task[i].out[Len(task[i].out)].op = "cp"
                  => ~remote.dest[DestKey(i)].present
            /\ (Returned /\ N = 1) => result.err)

\* InstallBinaries has returned an error for the one upload of the run: its
\* backup step moved the binary a of /bin away, its copy failed, /bin/a does
\* not exist and the old binary is in the backup directory.
C20_Witness ==
    /\ N = 1 /\ Returned /\ result.err
    /\ FailedAfterBackup(1)
    /\ task[1].out[6].op = "cp" /\ ~task[1].out[6].ok
    /\ ~remote.dest[<<"/bin", NameA>>].present
    /\ remote.bak[NameA].content = "a0"

\* ------------------------------------------------- claims, parallel tasks
\* The ssh call of task i has been made and has not returned.
InFlight(i) == task[i].pc = "ssh"

\* C21: the loop starts every upload's task without waiting for any (it
\* can always take its next turn), the wait begins only when all tasks were
\* started, and no task waits for another: whatever the others are doing, a
\* started task can make its call, a call in flight can run its next command
\* or return, and a task whose call returned can send its error and end.
C21_AllStartedNoneWaits ==
    /\ pc = "spawn" => ENABLED GoFunc
    /\ pc \in {"wait", "drain", "returned"} =>
            (spawned = N /\ \A i \in Tasks : task[i].pc # "idle")
    /\ \A i \in Tasks :
          /\ task[i].pc = "started" => ENABLED ProcessUpload(i)
          /\ InFlight(i) => ENABLED (RemoteCommand(i) \/ SSHReturn(i))
          /\ task[i].pc = "returned" => ENABLED GoFuncExit(i)

\* The calls of both uploads of the run were in flight together, and the
\* call of the second has returned while the call of the first, made
\* earlier, has not run its first command.
C21_Witness ==
    /\ N = 2 /\ pc = "wait"
    /\ InFlight(1) /\ task[1].out = <<>>
    /\ task[2].pc = "done" /\ task[2].calls = 1 /\ Len(task[2].out) > 0
    /\ task[1].script.data.TempDir < task[2].script.data.TempDir

\* ----------------------------------------------------- claims, termination
\* The tasks that have sent their error and ended.
Senders == {i \in Tasks : task[i].pc = "done" /\ task[i].err}

\* C22: InstallBinaries returns in every run in which the scheduler runs
\* every goroutine and every ssh call returns: the channel holds one error
\* per failed task that ended, never more than its capacity, so that no
\* send blocks, the wait ends, the channel is closed and the drain returns,
\* also when every upload failed.
C22_Terminates ==
    /\ <>Returned
    /\ [](/\ Len(errChan) = Cardinality(Senders)
          /\ Len(errChan) <= ChanCap(config.Uploads)
          /\ \A i \in Tasks :
                (task[i].pc = "returned" /\ task[i].err)
                    => Len(errChan) < ChanCap(config.Uploads))

\* Both uploads of the run failed, the channel is full and InstallBinaries
\* has returned.
C22_Witness ==
    /\ N = 2 /\ Returned /\ result.err
    /\ \A i \in Tasks : Failed(i)
    /\ Len(errChan) = ChanCap(config.Uploads)

\* ------------------------------------------- claims, what a failure leaves
TempDirOf(i) == task[i].script.data.TempDir

\* The script of task i stopped at one of its steps 2 to 8.
FailedBeforeCleanup(i) ==
    /\ Failed(i)
    /\ Len(task[i].out) \in 2..8
    /\ ~task[i].out[Len(task[i].out)].ok

\* What tar extracted for task i is in the directory t.
ExtractedIn(i, t) ==
    task[i].out[2].ok => ArchiveAt(config.Uploads[i].Path).files \subseteq t.files

\* C23 as stated: when the script of an upload fails at its extraction,
\* existence check, backup directory creation, backup move, copy, chown or
\* chmod, the temp directory of the upload, with what was extracted into
\* it, is on the remote host after InstallBinaries has returned.
C23_AsStated ==
    \A i \in Tasks :
        (Returned /\ FailedBeforeCleanup(i)) =>
            /\ remote.tmp[TempDirOf(i)].exists
            /\ ExtractedIn(i, remote.tmp[TempDirOf(i)])

\* What holds of the code: the same in the runs whose tasks drew different
\* temp directory names.
C23_RemainsWhenTempDirsDiffer ==
    \A i \in Tasks :
        (Returned /\ TempDirsDistinct /\ FailedBeforeCleanup(i)) =>
            /\ remote.tmp[TempDirOf(i)].exists
            /\ ExtractedIn(i, remote.tmp[TempDirOf(i)])

\* The first upload of a returned run failed at its chmod; the second one
\* drew the same temp directory name, succeeded and removed the directory.
C23_Reached ==
    /\ N = 2 /\ Returned
    /\ FailedBeforeCleanup(1)
    /\ task[1].out[Len(task[1].out)].op = "chmod"
    /\ Succeeded(2)
    /\ TempDirOf(2) = TempDirOf(1)
    /\ ~remote.tmp[TempDirOf(1)].exists

\* ------------------------------------------ claims, the capability grant
\* The script of task i was rendered with the capability block, ran its
\* nine commands before it with success and failed at setcap; the task has
\* returned the error.
OnlyCapabilityFailed(i) ==
    /\ Failed(i)
    /\ config.Uploads[i].BindLowPorts
    /\ Len(task[i].out) = 10
    /\ \A k \in 1..9 : task[i].out[k].ok
    /\ task[i].out[10].op = "setcap" /\ ~task[i].out[10].ok

\* The state C24 describes for upload i.
InstalledButFailed(i) ==
    LET u    == config.Uploads[i]
        f    == remote.dest[DestKey(i)]
        prev == InitRemote(N).dest[DestKey(i)]
    IN /\ f.present
       /\ <<BinaryNameOf(i), f.content>> \in ArchiveAt(u.Path).files
       /\ f.owner = u.Owner
       /\ f.mode = u.Permission
       /\ prev.present => remote.bak[BinaryNameOf(i)] = prev
       /\ ~remote.tmp[TempDirOf(i)].exists
       /\ Returned => result.err

\* C24 as stated, for an upload alone with its binary name in the run: when
\* BindLowPorts is true and only the setcap command fails, the upload has
\* failed (and so has InstallBinaries) although the destination holds the
\* binary of the archive with the configured owner and mode, the previous
\* binary, if there was one, is in the backup directory, and the temp
\* directory does not exist.
C24_AsStated ==
    \A i \in Tasks :
        (OnlyCapabilityFailed(i) /\ NameAlone(i)) => InstalledButFailed(i)

\* What holds of the code: the same in the runs whose tasks drew different
\* temp directory names.
C24_InstalledWhenTempDirsDiffer ==
    \A i \in Tasks :
        (OnlyCapabilityFailed(i) /\ NameAlone(i) /\ TempDirsDistinct)
            => InstalledButFailed(i)

\* The first upload of a returned run failed at its setcap only; the second
\* one drew the same temp directory name and failed after its mkdir, which
\* left the directory the first had removed.
C24_Reached ==
    /\ N = 2 /\ Returned
    /\ OnlyCapabilityFailed(1) /\ NameAlone(1)
    /\ TempDirOf(2) = TempDirOf(1)
    /\ remote.tmp[TempDirOf(1)].exists
    /\ remote.dest[DestKey(1)].content = "a1"
    /\ remote.bak[NameA].content = "a0"
====
